---- MODULE Spec2Model ----
(***************************************************************************)
(* Model of samcli.lib.pipeline.bootstrap.environment.Environment.         *)
(*                                                                         *)
(* A Python str is a TLA+ string.  An Optional[str] is a sequence of       *)
(* length at most one: None is <<>> and the string s is <<s>>.             *)
(***************************************************************************)
EXTENDS Integers, Sequences, FiniteSets, TLC

\* Number of bootstrap() calls explored on one Environment instance.
MaxCalls == 2

None == <<>>
Some(s) == <<s>>

\* Python truthiness of an Optional[str]
Truthy(o) == o # None /\ o[1] # ""

\* Python's `o or ""`
OrEmpty(o) == IF Truthy(o) THEN o[1] ELSE ""

Descriptors ==
    {"pipeline_user", "pipeline_execution_role", "cloudformation_execution_role",
     "artifacts_bucket", "image_repository"}

\* Output keys read from the StackOutput.
OutputKeys ==
    {"PipelineUser", "PipelineUserSecretKey", "PipelineExecutionRole",
     "CloudFormationExecutionRole", "ArtifactsBucket", "ImageRepository"}

\* Names of the parameter overrides handed to manage_stack.
ParameterNames ==
    {"PipelineUserArn", "PipelineExecutionRoleArn", "CloudFormationExecutionRoleArn",
     "ArtifactsBucketArn", "CreateImageRepository", "ImageRepositoryArn"}

\* One well-formed ARN per kind of resource.
ArnOf(d) ==
    CASE d = "pipeline_user" -> "arn:aws:iam::123456789012:user/pipeline-user"
      [] d = "pipeline_execution_role" -> "arn:aws:iam::123456789012:role/pipeline-role"
      [] d = "cloudformation_execution_role" -> "arn:aws:iam::123456789012:role/cfn-role"
      [] d = "artifacts_bucket" -> "arn:aws:s3:::my-bucket"
      [] d = "image_repository" -> "arn:aws:ecr:us-east-1:123456789012:repository/my-repo"

SecretArn == "arn:aws:secretsmanager:us-east-1:123456789012:secret:pipeline-user-key"

\* Values the constructor may receive for the ARN of descriptor d.
ConstructorArns(d) == {None, Some(ArnOf(d))}

\* Values output.get(k) may yield under each key (None: the key is absent).
OutputValues(k) ==
    CASE k = "PipelineUser" -> {None, Some(ArnOf("pipeline_user"))}
      [] k = "PipelineUserSecretKey" -> {None, Some(""), Some(SecretArn)}
      [] k = "PipelineExecutionRole" -> {None, Some(ArnOf("pipeline_execution_role"))}
      [] k = "CloudFormationExecutionRole" -> {None, Some(ArnOf("cloudformation_execution_role"))}
      [] k = "ArtifactsBucket" -> {None, Some(ArnOf("artifacts_bucket"))}
      [] k = "ImageRepository" -> {None, Some(ArnOf("image_repository"))}

\* The StackOutput objects manage_stack may return; o[k] is output.get(k).
StackOutputs ==
    [PipelineUser : OutputValues("PipelineUser"),
     PipelineUserSecretKey : OutputValues("PipelineUserSecretKey"),
     PipelineExecutionRole : OutputValues("PipelineExecutionRole"),
     CloudFormationExecutionRole : OutputValues("CloudFormationExecutionRole"),
     ArtifactsBucket : OutputValues("ArtifactsBucket"),
     ImageRepository : OutputValues("ImageRepository")]

NoOutput == [k \in OutputKeys |-> None]
NoParameters == [p \in ParameterNames |-> ""]

\* Deserialized SecretString values get_secret_value may return: the value
\* under each of the two keys, None when the JSON object lacks the key.
SecretJsons ==
    {[aws_access_key_id |-> Some("AKIAEXAMPLE1"), aws_secret_access_key |-> Some("secret1")],
     [aws_access_key_id |-> Some("AKIAEXAMPLE2"), aws_secret_access_key |-> Some("secret2")],
     [aws_access_key_id |-> Some("AKIAEXAMPLE1"), aws_secret_access_key |-> None],
     [aws_access_key_id |-> None, aws_secret_access_key |-> Some("secret1")]}

NoSecret == [aws_access_key_id |-> None, aws_secret_access_key |-> None]

\* What the secrets backend does with one get_secret_value call.
SecretOutcomes ==
    {[status |-> "raised", json |-> NoSecret]}
    \cup {[status |-> "returned", json |-> j] : j \in SecretJsons}

\* The user's possible answers to click.confirm.
Answers == {"yes", "no"}

VARIABLES
    name,                     \* Environment.name
    aws_region,               \* Environment.aws_region
    arn,                      \* arn[d]: the arn attribute of descriptor d
    is_user_provided,         \* is_user_provided[d]: flag of descriptor d
    create_image_repository,  \* Environment.create_image_repository
    access_key_id,            \* pipeline_user.access_key_id
    secret_access_key,        \* pipeline_user.secret_access_key
    stack,                    \* the provisioning backend's stack for this environment
    last,                     \* what the last call on the Environment did and returned
    calls,                    \* number of bootstrap() calls made so far
    provisioned,              \* number of manage_stack calls that have succeeded so far
    nmut,                     \* nmut[f]: number of calls that changed the value of field f
    guided                    \* the GuidedContext: its fields and the position of run()

vars == <<name, aws_region, arn, is_user_provided, create_image_repository, access_key_id, secret_access_key,
          stack, last, calls, provisioned, nmut, guided>>

Fields == Descriptors \cup {"access_key_id", "secret_access_key"}

\* Resource.__init__: the flag is computed once, from the constructor argument.
ResourceIsUserProvided(a) == Truthy(a)

\* The record of a call: its inputs, what it called, and what it returned.
NoCall ==
    [op |-> "none", confirm_changeset |-> FALSE, confirmed |-> "not asked",
     result |-> "none",
     manage_stack_calls |-> 0, manage_stack_status |-> "not called",
     stack_name |-> "", parameter_overrides |-> NoParameters, output |-> NoOutput,
     get_secret_value_calls |-> 0, secret_status |-> "not called",
     secret_id |-> "", secret_json |-> NoSecret,
     cmd_names |-> <<>>, fail_at |-> 0, puts |-> <<>>, flushed |-> FALSE,
     reported |-> <<>>, credentials_reported |-> FALSE,
     reported_access_key_id |-> None, reported_secret_access_key |-> None]

\* No questionnaire is running.
NoGuidedContext ==
    [pc |-> "none", editing |-> FALSE, edits |-> 0,
     profile |-> None, environment_name |-> None, region |-> None,
     pipeline_user_arn |-> None, pipeline_execution_role_arn |-> None,
     cloudformation_execution_role_arn |-> None, artifacts_bucket_arn |-> None,
     create_image_repository |-> FALSE, image_repository_arn |-> None,
     confirm |-> "not asked", image_repository_prompts |-> 0]

NoStack == [exists |-> FALSE, output |-> NoOutput]

\* Environment.__init__
Init ==
    /\ name = "Beta"
    /\ aws_region = None
    /\ arn \in [pipeline_user : ConstructorArns("pipeline_user"),
                pipeline_execution_role : ConstructorArns("pipeline_execution_role"),
                cloudformation_execution_role : ConstructorArns("cloudformation_execution_role"),
                artifacts_bucket : ConstructorArns("artifacts_bucket"),
                image_repository : ConstructorArns("image_repository")]
    /\ is_user_provided = [d \in Descriptors |-> ResourceIsUserProvided(arn[d])]
    /\ create_image_repository \in BOOLEAN
    /\ access_key_id = None
    /\ secret_access_key = None
    /\ stack = NoStack
    /\ last = NoCall
    /\ calls = 0
    /\ provisioned = 0
    /\ nmut = [f \in Fields |-> 0]
    /\ guided = NoGuidedContext

\* _get_resources with the image repository appended unconditionally.
get_resources_always_image ==
    <<"pipeline_user", "pipeline_execution_role", "cloudformation_execution_role",
      "artifacts_bucket", "image_repository">>

\* Environment._get_resources: the descriptors that take part in the checks, in order.
get_resources ==
    LET resources == <<"pipeline_user", "pipeline_execution_role",
                       "cloudformation_execution_role", "artifacts_bucket">>
    IN  IF create_image_repository \/ Truthy(arn["image_repository"])
        THEN Append(resources, "image_repository")
        ELSE resources

\* The check done on the current identifiers instead of the is_user_provided flags.
did_user_provide_all_by_current_arn ==
    \A i \in 1..Len(get_resources) : Truthy(arn[get_resources[i]])

\* Environment.did_user_provide_all_required_resources
did_user_provide_all_required_resources ==
    \A i \in 1..Len(get_resources) : is_user_provided[get_resources[i]]

\* The confirmation's answer ignored.
ProceedsWhateverTheAnswer(confirm_changeset, answer) == TRUE

\* Lines 157-161: bootstrap goes on unless it asked and the user said no.
Proceeds(confirm_changeset, answer) == ~confirm_changeset \/ answer = "yes"

\* The answer click.confirm received, if it was called at all.
Confirmed(confirm_changeset, answer) == IF confirm_changeset THEN answer ELSE "not asked"

STACK_NAME_PREFIX == "aws-sam-cli-managed"
ENVIRONMENT_RESOURCES_STACK_NAME_SUFFIX == "pipeline-resources"

\* The characters of the class 0-9a-zA-Z.
AlphaNumerics ==
    {"0", "1", "2", "3", "4", "5", "6", "7", "8", "9",
     "a", "b", "c", "d", "e", "f", "g", "h", "i", "j", "k", "l", "m",
     "n", "o", "p", "q", "r", "s", "t", "u", "v", "w", "x", "y", "z",
     "A", "B", "C", "D", "E", "F", "G", "H", "I", "J", "K", "L", "M",
     "N", "O", "P", "Q", "R", "S", "T", "U", "V", "W", "X", "Y", "Z"}

\* The substitution done with the pattern [^0-9a-zA-Z], without the +.
RECURSIVE re_sub_each_character(_)
re_sub_each_character(s) ==
    IF Len(s) = 0
    THEN ""
    ELSE (IF SubSeq(s, 1, 1) \in AlphaNumerics THEN SubSeq(s, 1, 1) ELSE "-")
         \o re_sub_each_character(SubSeq(s, 2, Len(s)))

\* s without its longest prefix of characters outside 0-9a-zA-Z.
RECURSIVE SkipRun(_)
SkipRun(s) ==
    IF Len(s) > 0 /\ SubSeq(s, 1, 1) \notin AlphaNumerics
    THEN SkipRun(SubSeq(s, 2, Len(s)))
    ELSE s

\* re.sub("[^0-9a-zA-Z]+", "-", s): scanning from the left, each match is a
\* longest run of characters outside the class and becomes one hyphen.
RECURSIVE re_sub(_)
re_sub(s) ==
    IF Len(s) = 0
    THEN ""
    ELSE IF SubSeq(s, 1, 1) \in AlphaNumerics
         THEN SubSeq(s, 1, 1) \o re_sub(SubSeq(s, 2, Len(s)))
         ELSE "-" \o re_sub(SkipRun(s))

\* Environment._get_stack_name
get_stack_name ==
    STACK_NAME_PREFIX \o "-" \o re_sub(name) \o "-" \o ENVIRONMENT_RESOURCES_STACK_NAME_SUFFIX

\* parameter_overrides with the bucket parameter taken from the wrong descriptor.
parameter_overrides_wrong_bucket ==
    [p \in ParameterNames |->
        CASE p = "PipelineUserArn" -> OrEmpty(arn["pipeline_user"])
          [] p = "PipelineExecutionRoleArn" -> OrEmpty(arn["pipeline_execution_role"])
          [] p = "CloudFormationExecutionRoleArn" -> OrEmpty(arn["cloudformation_execution_role"])
          [] p = "ArtifactsBucketArn" -> OrEmpty(arn["cloudformation_execution_role"])
          [] p = "CreateImageRepository" -> IF create_image_repository THEN "true" ELSE "false"
          [] p = "ImageRepositoryArn" -> OrEmpty(arn["image_repository"])]

\* The parameter_overrides argument of the manage_stack call.
parameter_overrides ==
    [p \in ParameterNames |->
        CASE p = "PipelineUserArn" -> OrEmpty(arn["pipeline_user"])
          [] p = "PipelineExecutionRoleArn" -> OrEmpty(arn["pipeline_execution_role"])
          [] p = "CloudFormationExecutionRoleArn" -> OrEmpty(arn["cloudformation_execution_role"])
          [] p = "ArtifactsBucketArn" -> OrEmpty(arn["artifacts_bucket"])
          [] p = "CreateImageRepository" -> IF create_image_repository THEN "true" ELSE "false"
          [] p = "ImageRepositoryArn" -> OrEmpty(arn["image_repository"])]

\* manage_stack, when it does not raise: the outputs it may return.  It does
\* not redeploy a stack that already exists, it returns that stack's outputs.
manage_stack(overrides) ==
    IF stack.exists THEN {stack.output} ELSE StackOutputs

\* The read-back with the bucket taken from the wrong output key.
arn_from_output_wrong_bucket(output) ==
    [d \in Descriptors |->
        CASE d = "pipeline_user" -> output["PipelineUser"]
          [] d = "pipeline_execution_role" -> output["PipelineExecutionRole"]
          [] d = "cloudformation_execution_role" -> output["CloudFormationExecutionRole"]
          [] d = "artifacts_bucket" -> output["CloudFormationExecutionRole"]
          [] d = "image_repository" -> output["ImageRepository"]]

\* The descriptors' arn attributes once every output has been read back
\* (lines 181 and 189-192).
arn_from_output(output) ==
    [d \in Descriptors |->
        CASE d = "pipeline_user" -> output["PipelineUser"]
          [] d = "pipeline_execution_role" -> output["PipelineExecutionRole"]
          [] d = "cloudformation_execution_role" -> output["CloudFormationExecutionRole"]
          [] d = "artifacts_bucket" -> output["ArtifactsBucket"]
          [] d = "image_repository" -> output["ImageRepository"]]

\* Only the first subscript checked, as if the second were read with .get().
HasAccessKeyIdField(secret_json) ==
    secret_json["aws_access_key_id"] # None

\* Line 223: the two subscripts of the deserialized secret do not raise KeyError.
HasBothFields(secret_json) ==
    secret_json["aws_access_key_id"] # None /\ secret_json["aws_secret_access_key"] # None

\* The pair returned in the wrong order.
get_pipeline_user_secret_pair_swapped(secret_json) ==
    <<secret_json["aws_secret_access_key"], secret_json["aws_access_key_id"]>>

\* The tuple returned by Environment._get_pipeline_user_secret_pair.
get_pipeline_user_secret_pair(secret_json) ==
    <<secret_json["aws_access_key_id"], secret_json["aws_secret_access_key"]>>

\* Bookkeeping: count, per field, the calls that changed its value.
NmutAfter(new_arn, new_id, new_key) ==
    [f \in Fields |->
        nmut[f] + (IF f \in Descriptors
                   THEN (IF new_arn[f] # arn[f] THEN 1 ELSE 0)
                   ELSE IF f = "access_key_id"
                        THEN (IF new_id # access_key_id THEN 1 ELSE 0)
                        ELSE (IF new_key # secret_access_key THEN 1 ELSE 0))]

\* A caller evaluates did_user_provide_all_required_resources().
DidUserProvideAllRequiredResources ==
    /\ last' = [NoCall EXCEPT !.op = "did_user_provide_all_required_resources",
                              !.result = IF did_user_provide_all_required_resources
                                         THEN "True" ELSE "False"]
    /\ last' # last
    /\ UNCHANGED <<guided, name, aws_region, arn, is_user_provided, create_image_repository,
                   access_key_id, secret_access_key, stack, calls, provisioned, nmut>>

\* bootstrap(): everything is user provided, return True (lines 146-150).
BootstrapSkip ==
    /\ calls < MaxCalls
    /\ did_user_provide_all_required_resources
    /\ \E confirm_changeset \in BOOLEAN :
          last' = [NoCall EXCEPT !.op = "bootstrap", !.confirm_changeset = confirm_changeset,
                                 !.result = "True"]
    /\ calls' = calls + 1
    /\ UNCHANGED <<guided, name, aws_region, arn, is_user_provided, create_image_repository,
                   access_key_id, secret_access_key, stack, provisioned, nmut>>

\* bootstrap(True): the user answers no to click.confirm (lines 152-161).
BootstrapDeclined ==
    /\ calls < MaxCalls
    /\ ~did_user_provide_all_required_resources
    /\ \E confirm_changeset \in BOOLEAN, answer \in Answers :
          /\ ~Proceeds(confirm_changeset, answer)
          /\ last' = [NoCall EXCEPT !.op = "bootstrap", !.confirm_changeset = confirm_changeset,
                                    !.confirmed = Confirmed(confirm_changeset, answer),
                                    !.result = "False"]
    /\ calls' = calls + 1
    /\ UNCHANGED <<guided, name, aws_region, arn, is_user_provided, create_image_repository,
                   access_key_id, secret_access_key, stack, provisioned, nmut>>

\* bootstrap() swallowing the failure of manage_stack and reading back an
\* empty output.
BootstrapManageStackRaisesAndGoesOn ==
    /\ calls < MaxCalls
    /\ ~did_user_provide_all_required_resources
    /\ \E confirm_changeset \in BOOLEAN, answer \in Answers :
          /\ Proceeds(confirm_changeset, answer)
          /\ last' = [NoCall EXCEPT !.op = "bootstrap", !.confirm_changeset = confirm_changeset,
                                    !.confirmed = Confirmed(confirm_changeset, answer),
                                    !.result = "True",
                                    !.manage_stack_calls = 1,
                                    !.manage_stack_status = "raised",
                                    !.stack_name = get_stack_name,
                                    !.parameter_overrides = parameter_overrides]
    /\ arn' = arn_from_output(NoOutput)
    /\ nmut' = NmutAfter(arn_from_output(NoOutput), access_key_id, secret_access_key)
    /\ calls' = calls + 1
    /\ UNCHANGED <<guided, name, aws_region, is_user_provided, create_image_repository,
                   access_key_id, secret_access_key, stack, provisioned>>

\* bootstrap(): manage_stack raises (lines 163-177).
BootstrapManageStackRaises ==
    /\ calls < MaxCalls
    /\ ~did_user_provide_all_required_resources
    /\ \E confirm_changeset \in BOOLEAN, answer \in Answers :
          /\ Proceeds(confirm_changeset, answer)
          /\ last' = [NoCall EXCEPT !.op = "bootstrap", !.confirm_changeset = confirm_changeset,
                                    !.confirmed = Confirmed(confirm_changeset, answer),
                                    !.result = "raised",
                                    !.manage_stack_calls = 1,
                                    !.manage_stack_status = "raised",
                                    !.stack_name = get_stack_name,
                                    !.parameter_overrides = parameter_overrides]
    /\ calls' = calls + 1
    /\ UNCHANGED <<guided, name, aws_region, arn, is_user_provided, create_image_repository,
                   access_key_id, secret_access_key, stack, provisioned, nmut>>

\* bootstrap(): manage_stack returns and output.get("PipelineUserSecretKey")
\* is falsy, so the if at line 182 is not taken (lines 163-193).
BootstrapWithoutSecret ==
    /\ calls < MaxCalls
    /\ ~did_user_provide_all_required_resources
    /\ \E confirm_changeset \in BOOLEAN, answer \in Answers,
          output \in manage_stack(parameter_overrides) :
          /\ Proceeds(confirm_changeset, answer)
          /\ ~Truthy(output["PipelineUserSecretKey"])
          /\ last' = [NoCall EXCEPT !.op = "bootstrap", !.confirm_changeset = confirm_changeset,
                                    !.confirmed = Confirmed(confirm_changeset, answer),
                                    !.result = "True",
                                    !.manage_stack_calls = 1,
                                    !.manage_stack_status = "returned",
                                    !.stack_name = get_stack_name,
                                    !.parameter_overrides = parameter_overrides,
                                    !.output = output]
          /\ stack' = [exists |-> TRUE, output |-> output]
          /\ arn' = arn_from_output(output)
          /\ nmut' = NmutAfter(arn_from_output(output), access_key_id, secret_access_key)
    /\ calls' = calls + 1
    /\ provisioned' = provisioned + 1
    /\ UNCHANGED <<guided, name, aws_region, is_user_provided, create_image_repository,
                   access_key_id, secret_access_key>>

\* bootstrap(): manage_stack returns a PipelineUserSecretKey, the secret is
\* fetched and has both fields (lines 163-193, the if at line 182 taken).
BootstrapWithSecret ==
    /\ calls < MaxCalls
    /\ ~did_user_provide_all_required_resources
    /\ \E confirm_changeset \in BOOLEAN, answer \in Answers,
          output \in manage_stack(parameter_overrides), secret \in SecretOutcomes :
          /\ Proceeds(confirm_changeset, answer)
          /\ Truthy(output["PipelineUserSecretKey"])
          /\ secret.status = "returned"
          /\ HasBothFields(secret.json)
          /\ last' = [NoCall EXCEPT !.op = "bootstrap", !.confirm_changeset = confirm_changeset,
                                    !.confirmed = Confirmed(confirm_changeset, answer),
                                    !.result = "True",
                                    !.manage_stack_calls = 1,
                                    !.manage_stack_status = "returned",
                                    !.stack_name = get_stack_name,
                                    !.parameter_overrides = parameter_overrides,
                                    !.output = output,
                                    !.get_secret_value_calls = 1,
                                    !.secret_status = "returned",
                                    !.secret_id = output["PipelineUserSecretKey"][1],
                                    !.secret_json = secret.json]
          /\ stack' = [exists |-> TRUE, output |-> output]
          /\ arn' = arn_from_output(output)
          /\ access_key_id' = get_pipeline_user_secret_pair(secret.json)[1]
          /\ secret_access_key' = get_pipeline_user_secret_pair(secret.json)[2]
          /\ nmut' = NmutAfter(arn_from_output(output),
                               get_pipeline_user_secret_pair(secret.json)[1],
                               get_pipeline_user_secret_pair(secret.json)[2])
    /\ calls' = calls + 1
    /\ provisioned' = provisioned + 1
    /\ UNCHANGED <<guided, name, aws_region, is_user_provided, create_image_repository>>

\* bootstrap(): manage_stack returns a PipelineUserSecretKey, pipeline_user.arn
\* is assigned (line 181), and then _get_pipeline_user_secret_pair raises:
\* get_secret_value fails, or the secret lacks one of the two fields.
BootstrapSecretRaises ==
    /\ calls < MaxCalls
    /\ ~did_user_provide_all_required_resources
    /\ \E confirm_changeset \in BOOLEAN, answer \in Answers,
          output \in manage_stack(parameter_overrides), secret \in SecretOutcomes :
          /\ Proceeds(confirm_changeset, answer)
          /\ Truthy(output["PipelineUserSecretKey"])
          /\ secret.status = "raised" \/ ~HasBothFields(secret.json)
          /\ last' = [NoCall EXCEPT !.op = "bootstrap", !.confirm_changeset = confirm_changeset,
                                    !.confirmed = Confirmed(confirm_changeset, answer),
                                    !.result = "raised",
                                    !.manage_stack_calls = 1,
                                    !.manage_stack_status = "returned",
                                    !.stack_name = get_stack_name,
                                    !.parameter_overrides = parameter_overrides,
                                    !.output = output,
                                    !.get_secret_value_calls = 1,
                                    !.secret_status = secret.status,
                                    !.secret_id = output["PipelineUserSecretKey"][1],
                                    !.secret_json = secret.json]
          /\ stack' = [exists |-> TRUE, output |-> output]
          /\ arn' = [arn EXCEPT !["pipeline_user"] = output["PipelineUser"]]
          /\ nmut' = NmutAfter([arn EXCEPT !["pipeline_user"] = output["PipelineUser"]],
                               access_key_id, secret_access_key)
    /\ calls' = calls + 1
    /\ provisioned' = provisioned + 1
    /\ UNCHANGED <<guided, name, aws_region, is_user_provided, create_image_repository,
                   access_key_id, secret_access_key>>

\* The comment each descriptor is constructed with (lines 89-100).
comment(d) ==
    CASE d = "pipeline_user" -> "Pipeline IAM user"
      [] d = "pipeline_execution_role" -> "Pipeline execution role"
      [] d = "cloudformation_execution_role" -> "CloudFormation execution role"
      [] d = "artifacts_bucket" -> "Artifact bucket"
      [] d = "image_repository" -> "ECR image repository"

\* The two branches of the partition swapped.
created_resources_swapped ==
    LET IsProvided(d) == is_user_provided[d]
    IN  SelectSeq(get_resources, IsProvided)

\* Lines 310-316: the resources the summary lists as created.
created_resources ==
    LET IsCreated(d) == ~is_user_provided[d]
    IN  SelectSeq(get_resources, IsCreated)

\* Environment.print_resources_summary: the comments printed under "The
\* following resources were created", and the credentials when line 323 holds.
PrintResourcesSummary ==
    /\ last' = [NoCall EXCEPT
                  !.op = "print_resources_summary",
                  !.result = "None",
                  !.reported = [i \in 1..Len(created_resources) |->
                                  comment(created_resources[i])],
                  !.credentials_reported = ~is_user_provided["pipeline_user"],
                  !.reported_access_key_id =
                      IF ~is_user_provided["pipeline_user"] THEN access_key_id ELSE None,
                  !.reported_secret_access_key =
                      IF ~is_user_provided["pipeline_user"] THEN secret_access_key ELSE None]
    /\ UNCHANGED <<guided, name, aws_region, arn, is_user_provided, create_image_repository,
                   access_key_id, secret_access_key, stack, calls, provisioned, nmut>>

\* Environment.bootstrap
Bootstrap ==
    \/ BootstrapSkip
    \/ BootstrapDeclined
    \/ BootstrapManageStackRaises
    \/ BootstrapWithoutSecret
    \/ BootstrapWithSecret
    \/ BootstrapSecretRaises

Next ==
    \/ DidUserProvideAllRequiredResources
    \/ Bootstrap
    \/ PrintResourcesSummary

Spec == Init /\ [][Next]_vars

\* Names given to environments.
EnvironmentNames == {"Beta", "My Env!", "Prod 2", "dev__east--1", "!!qa", "", "stage.one/two"}

\* Environment.__init__, with a name of any shape and the resources either
\* all provided or all to be created.
InitStack ==
    /\ name \in EnvironmentNames
    /\ aws_region = None
    /\ arn \in {[d \in Descriptors |-> None], [d \in Descriptors |-> Some(ArnOf(d))]}
    /\ is_user_provided = [d \in Descriptors |-> ResourceIsUserProvided(arn[d])]
    /\ create_image_repository \in BOOLEAN
    /\ access_key_id = None
    /\ secret_access_key = None
    /\ stack = NoStack
    /\ last = NoCall
    /\ calls = 0
    /\ provisioned = 0
    /\ nmut = [f \in Fields |-> 0]
    /\ guided = NoGuidedContext

SpecStack == InitStack /\ [][Next]_vars

(***************************************************************************)
(* save_config                                                             *)
(***************************************************************************)

PIPELINE_USER == "pipeline_user"
PIPELINE_EXECUTION_ROLE == "pipeline_execution_role"
CLOUDFORMATION_EXECUTION_ROLE == "cloudformation_execution_role"
ARTIFACTS_BUCKET == "artifacts_bucket"
ECR_IMAGE_REPOSITORY == "image_repository"
REGION == "region"

\* Identifiers that are not ARNs of the expected shape.
MalformedBucketArns == {"my-bucket", "arn:aws:s3:::", "arn:aws:s3:::my-bucket:extra"}
MalformedRepositoryArns == {"my-repo", "arn:aws:ecr:us-east-1:123456789012:my-repo"}

\* The nested command names a caller may scope the configuration to.
CmdNames == {<<"pipeline", "bootstrap">>, <<"deploy">>}

\* str.split(sep) for a one-character separator.
RECURSIVE Split(_, _)
Split(s, sep) ==
    IF \E i \in 1..Len(s) : SubSeq(s, i, i) = sep
    THEN LET i == CHOOSE j \in 1..Len(s) :
                     /\ SubSeq(s, j, j) = sep
                     /\ \A k \in 1..(j - 1) : SubSeq(s, k, k) # sep
         IN  <<SubSeq(s, 1, i - 1)>> \o Split(SubSeq(s, i + 1, Len(s)), sep)
    ELSE <<s>>

\* str.startswith
StartsWith(s, prefix) ==
    Len(s) >= Len(prefix) /\ SubSeq(s, 1, Len(prefix)) = prefix

\* The structural pattern of an identifier: six colon-delimited segments, the
\* last one being the resource id.
ARNParts(a) ==
    LET parts == Split(a, ":")
    IN  IF Len(parts) = 6
        THEN [raised |-> FALSE, region |-> parts[4], account_id |-> parts[5],
              resource_id |-> parts[6]]
        ELSE [raised |-> TRUE, region |-> "", account_id |-> "", resource_id |-> ""]

\* Resource.name(): the trailing resource-name segment of the identifier;
\* fails when the identifier is empty or does not have the expected segments.
Resource_name(identifier) ==
    IF ~Truthy(identifier) \/ ARNParts(identifier[1]).raised
    THEN [raised |-> TRUE, value |-> None]
    ELSE [raised |-> FALSE, value |-> Some(ARNParts(identifier[1]).resource_id)]

\* ECRImageRepository.get_uri(): <account>.dkr.ecr.<region>.amazonaws.com/<name>
\* from an identifier whose resource id is repository/<name>; fails likewise.
ECRImageRepository_get_uri(identifier) ==
    IF ~Truthy(identifier) \/ ARNParts(identifier[1]).raised
    THEN [raised |-> TRUE, value |-> None]
    ELSE LET parts == ARNParts(identifier[1])
         IN  IF ~StartsWith(parts.resource_id, "repository/")
             THEN [raised |-> TRUE, value |-> None]
             ELSE [raised |-> FALSE,
                   value |-> Some(parts.account_id \o ".dkr.ecr." \o parts.region
                                  \o ".amazonaws.com/"
                                  \o SubSeq(parts.resource_id, Len("repository/") + 1,
                                            Len(parts.resource_id)))]

\* Lines 258-261: the bucket name, "" when name() raises ValueError.
artifacts_bucket_name ==
    IF Resource_name(arn["artifacts_bucket"]).raised
    THEN Some("")
    ELSE Resource_name(arn["artifacts_bucket"]).value

\* Lines 262-265: the repository URI, "" when get_uri() raises ValueError.
image_repository_uri ==
    IF ECRImageRepository_get_uri(arn["image_repository"]).raised
    THEN Some("")
    ELSE ECRImageRepository_get_uri(arn["image_repository"]).value

\* The dictionary with the bucket's ARN stored in place of its name.
environment_specific_configs_bucket_arn ==
    << <<PIPELINE_EXECUTION_ROLE, arn["pipeline_execution_role"]>>,
       <<CLOUDFORMATION_EXECUTION_ROLE, arn["cloudformation_execution_role"]>>,
       <<ARTIFACTS_BUCKET, arn["artifacts_bucket"]>>,
       <<ECR_IMAGE_REPOSITORY, image_repository_uri>>,
       <<REGION, aws_region>> >>

\* Lines 267-273: the dictionary, as its items in insertion order.
environment_specific_configs ==
    << <<PIPELINE_EXECUTION_ROLE, arn["pipeline_execution_role"]>>,
       <<CLOUDFORMATION_EXECUTION_ROLE, arn["cloudformation_execution_role"]>>,
       <<ARTIFACTS_BUCKET, artifacts_bucket_name>>,
       <<ECR_IMAGE_REPOSITORY, image_repository_uri>>,
       <<REGION, aws_region>> >>

\* The put calls with a value of "" not skipped by the loop.
save_config_puts_unfiltered(cmd_names) ==
    LET HasValue(item) == item[2] # None
        items == SelectSeq(environment_specific_configs, HasValue)
    IN  (IF Truthy(arn["pipeline_user"])
         THEN <<[cmd_names |-> cmd_names, section |-> "parameters", key |-> PIPELINE_USER,
                 value |-> arn["pipeline_user"][1], env |-> None]>>
         ELSE <<>>)
        \o [i \in 1..Len(items) |->
              [cmd_names |-> cmd_names, section |-> "parameters", key |-> items[i][1],
               value |-> items[i][2][1], env |-> Some(name)]]

\* The put calls with the pipeline user scoped by the environment as well.
save_config_puts_user_scoped(cmd_names) ==
    LET HasValue(item) == Truthy(item[2])
        items == SelectSeq(environment_specific_configs, HasValue)
    IN  (IF Truthy(arn["pipeline_user"])
         THEN <<[cmd_names |-> cmd_names, section |-> "parameters", key |-> PIPELINE_USER,
                 value |-> arn["pipeline_user"][1], env |-> Some(name)]>>
         ELSE <<>>)
        \o [i \in 1..Len(items) |->
              [cmd_names |-> cmd_names, section |-> "parameters", key |-> items[i][1],
               value |-> items[i][2][1], env |-> Some(name)]]

\* The samconfig.put calls save_config makes when none of them raises, in
\* order: lines 253-254, then the loop of lines 275-283.
save_config_puts(cmd_names) ==
    LET HasValue(item) == Truthy(item[2])
        items == SelectSeq(environment_specific_configs, HasValue)
    IN  (IF Truthy(arn["pipeline_user"])
         THEN <<[cmd_names |-> cmd_names, section |-> "parameters", key |-> PIPELINE_USER,
                 value |-> arn["pipeline_user"][1], env |-> None]>>
         ELSE <<>>)
        \o [i \in 1..Len(items) |->
              [cmd_names |-> cmd_names, section |-> "parameters", key |-> items[i][1],
               value |-> items[i][2][1], env |-> Some(name)]]

\* What one run of the body of save_config does when the configuration store
\* raises at step fail_at, or never when fail_at is 0: step 1 is SamConfig(),
\* step k + 1 the k-th of the given puts, and the last step is flush().
save_config(puts, fail_at) ==
    [puts |-> IF fail_at = 0 THEN puts ELSE SubSeq(puts, 1, fail_at - 2),
     flushed |-> (fail_at = 0),
     result |-> IF fail_at = 0 THEN "None" ELSE "raised"]

\* Environment.save_config
SaveConfig ==
    /\ \E cmd_names \in CmdNames :
       \E puts \in {save_config_puts(cmd_names)} :
       \E fail_at \in 0..(Len(puts) + 2) :
          /\ last' = [NoCall EXCEPT
                        !.op = "save_config",
                        !.cmd_names = cmd_names,
                        !.fail_at = fail_at,
                        !.puts = save_config(puts, fail_at).puts,
                        !.flushed = save_config(puts, fail_at).flushed,
                        !.result = save_config(puts, fail_at).result]
    /\ UNCHANGED <<guided, name, aws_region, arn, is_user_provided, create_image_repository,
                   access_key_id, secret_access_key, stack, calls, provisioned, nmut>>

\* The try/except of save_config_safe letting the exception through.
save_config_safe_result_reraised(result) == result

\* Lines 291-294: what save_config_safe returns, whatever save_config did.
save_config_safe_result(result) == "None"

\* Environment.save_config_safe
SaveConfigSafe ==
    /\ \E cmd_names \in CmdNames :
       \E puts \in {save_config_puts(cmd_names)} :
       \E fail_at \in 0..(Len(puts) + 2) :
          /\ last' = [NoCall EXCEPT
                        !.op = "save_config_safe",
                        !.cmd_names = cmd_names,
                        !.fail_at = fail_at,
                        !.puts = save_config(puts, fail_at).puts,
                        !.flushed = save_config(puts, fail_at).flushed,
                        !.result = save_config_safe_result(
                                       save_config(puts, fail_at).result)]
    /\ UNCHANGED <<guided, name, aws_region, arn, is_user_provided, create_image_repository,
                   access_key_id, secret_access_key, stack, calls, provisioned, nmut>>

\* Environment.__init__, with identifiers of any shape.
InitSave ==
    /\ name \in {"Beta", "Prod"}
    /\ aws_region \in {None, Some("us-east-1")}
    /\ arn \in [pipeline_user : ConstructorArns("pipeline_user"),
                pipeline_execution_role : ConstructorArns("pipeline_execution_role"),
                cloudformation_execution_role : ConstructorArns("cloudformation_execution_role"),
                artifacts_bucket : ConstructorArns("artifacts_bucket") \cup {Some("")}
                                   \cup {Some(a) : a \in MalformedBucketArns},
                image_repository : ConstructorArns("image_repository")
                                   \cup {Some(a) : a \in MalformedRepositoryArns}]
    /\ is_user_provided = [d \in Descriptors |-> ResourceIsUserProvided(arn[d])]
    /\ create_image_repository \in BOOLEAN
    /\ access_key_id = None
    /\ secret_access_key = None
    /\ stack = NoStack
    /\ last = NoCall
    /\ calls = 0
    /\ provisioned = 0
    /\ nmut = [f \in Fields |-> 0]
    /\ guided = NoGuidedContext

NextSave ==
    \/ SaveConfig
    \/ SaveConfigSafe

SpecSave == InitSave /\ [][NextSave]_vars

\* ---------------------------------------------------------------------------
\* GuidedContext (guided_context.py): the interactive questionnaire run()
\* ---------------------------------------------------------------------------

\* Number of items the user may edit from the summary before confirming.
MaxEdits == 2

\* list_available_profiles()
Profiles == <<"default">>

\* What the user may type at the prompts.
StageNames == {"Beta", "Prod"}
Regions == {"us-east-1", "eu-west-1"}
ArnAnswers(d) == {"", ArnOf(d)}

\* _get_user_inputs: the prompt behind each item of the summary, in order.
Items ==
    <<"account_id", "stage_name", "region", "pipeline_user", "pipeline_execution_role",
      "cloudformation_execution_role", "artifacts_bucket", "image_repository">>

\* The questionnaire works on its own fields only.
EnvironmentUnchanged ==
    UNCHANGED <<name, aws_region, arn, is_user_provided, create_image_repository,
                access_key_id, secret_access_key, stack, last, calls, provisioned, nmut>>

\* A prompt of the initial questionnaire is followed by the next one; a prompt
\* run from the summary returns to the summary.
Advance(g, next) ==
    [g EXCEPT !.pc = IF g.editing THEN "summary" ELSE next, !.editing = FALSE]

\* In the initial questionnaire a value given to the constructor is echoed
\* and its prompt is skipped; from the summary the prompt always runs.
Echoed(g, value) == ~g.editing /\ Truthy(value)

prompt_stage_name(g, answer) == [g EXCEPT !.environment_name = Some(answer)]

prompt_region_name(g, answer) == [g EXCEPT !.region = Some(answer)]

prompt_image_repository_keeps_flag(g, confirm, answer) ==
    IF confirm
    THEN [g EXCEPT !.image_repository_arn = Some(answer),
                   !.create_image_repository = ~Truthy(Some(answer)),
                   !.confirm = "yes",
                   !.image_repository_prompts = @ + 1]
    ELSE [g EXCEPT !.confirm = "no",
                   !.image_repository_prompts = @ + 1]

\* _prompt_image_repository
prompt_image_repository(g, confirm, answer) ==
    IF confirm
    THEN [g EXCEPT !.image_repository_arn = Some(answer),
                   !.create_image_repository = ~Truthy(Some(answer)),
                   !.confirm = "yes",
                   !.image_repository_prompts = @ + 1]
    ELSE [g EXCEPT !.create_image_repository = FALSE,
                   !.confirm = "no",
                   !.image_repository_prompts = @ + 1]

\* GuidedContext.__init__
InitGuided ==
    /\ name = "Beta"
    /\ aws_region = None
    /\ arn = [d \in Descriptors |-> None]
    /\ is_user_provided = [d \in Descriptors |-> ResourceIsUserProvided(arn[d])]
    /\ create_image_repository = FALSE
    /\ access_key_id = None
    /\ secret_access_key = None
    /\ stack = NoStack
    /\ last = NoCall
    /\ calls = 0
    /\ provisioned = 0
    /\ nmut = [f \in Fields |-> 0]
    /\ guided \in
         [pc : {"stage_name"}, editing : {FALSE}, edits : {0},
          profile : {None, Some(Profiles[1])},
          environment_name : {None, Some("Beta")},
          region : {None, Some("us-east-1")},
          pipeline_user_arn : {None, Some(ArnOf("pipeline_user"))},
          pipeline_execution_role_arn : {None, Some(ArnOf("pipeline_execution_role"))},
          cloudformation_execution_role_arn :
              {None, Some(ArnOf("cloudformation_execution_role"))},
          artifacts_bucket_arn : {None, Some(ArnOf("artifacts_bucket"))},
          create_image_repository : BOOLEAN,
          image_repository_arn : {None, Some(ArnOf("image_repository"))},
          confirm : {"not asked"}, image_repository_prompts : {0}]

\* run(), [1] Stage definition; _prompt_stage_name
RunStageName ==
    /\ guided.pc = "stage_name"
    /\ IF Echoed(guided, guided.environment_name)
       THEN guided' = Advance(guided, "account_id")
       ELSE \E answer \in StageNames :
                guided' = Advance(prompt_stage_name(guided, answer), "account_id")
    /\ EnvironmentUnchanged

\* _prompt_account_id, answer "q"
PromptAccountIdQuit ==
    /\ guided.pc = "account_id"
    /\ guided' = [guided EXCEPT !.pc = "exited"]
    /\ EnvironmentUnchanged

\* _prompt_account_id, answer "e" or the number of a profile; when the
\* credentials are rejected the prompt is asked again.
PromptAccountId ==
    /\ guided.pc = "account_id"
    /\ \E profile \in {None} \cup {Some(Profiles[i]) : i \in 1..Len(Profiles)},
          credentials_ok \in BOOLEAN :
           guided' = IF credentials_ok
                     THEN Advance([guided EXCEPT !.profile = profile], "region")
                     ELSE [guided EXCEPT !.profile = profile]
    /\ EnvironmentUnchanged

\* run(), region; _prompt_region_name
RunRegionName ==
    /\ guided.pc = "region"
    /\ IF Echoed(guided, guided.region)
       THEN guided' = Advance(guided, "pipeline_user")
       ELSE \E answer \in Regions :
                guided' = Advance(prompt_region_name(guided, answer), "pipeline_user")
    /\ EnvironmentUnchanged

\* run(), pipeline user; _prompt_pipeline_user
RunPipelineUser ==
    /\ guided.pc = "pipeline_user"
    /\ IF Echoed(guided, guided.pipeline_user_arn)
       THEN guided' = Advance(guided, "pipeline_execution_role")
       ELSE \E answer \in ArnAnswers("pipeline_user") :
                guided' = Advance([guided EXCEPT !.pipeline_user_arn = Some(answer)],
                                  "pipeline_execution_role")
    /\ EnvironmentUnchanged

\* run(), pipeline execution role; _prompt_pipeline_execution_role
RunPipelineExecutionRole ==
    /\ guided.pc = "pipeline_execution_role"
    /\ IF Echoed(guided, guided.pipeline_execution_role_arn)
       THEN guided' = Advance(guided, "cloudformation_execution_role")
       ELSE \E answer \in ArnAnswers("pipeline_execution_role") :
                guided' = Advance([guided EXCEPT !.pipeline_execution_role_arn = Some(answer)],
                                  "cloudformation_execution_role")
    /\ EnvironmentUnchanged

\* run(), CloudFormation execution role; _prompt_cloudformation_execution_role
RunCloudformationExecutionRole ==
    /\ guided.pc = "cloudformation_execution_role"
    /\ IF Echoed(guided, guided.cloudformation_execution_role_arn)
       THEN guided' = Advance(guided, "artifacts_bucket")
       ELSE \E answer \in ArnAnswers("cloudformation_execution_role") :
                guided' = Advance([guided EXCEPT
                                       !.cloudformation_execution_role_arn = Some(answer)],
                                  "artifacts_bucket")
    /\ EnvironmentUnchanged

\* run(), artifacts bucket; _prompt_artifacts_bucket
RunArtifactsBucket ==
    /\ guided.pc = "artifacts_bucket"
    /\ IF Echoed(guided, guided.artifacts_bucket_arn)
       THEN guided' = Advance(guided, "image_repository")
       ELSE \E answer \in ArnAnswers("artifacts_bucket") :
                guided' = Advance([guided EXCEPT !.artifacts_bucket_arn = Some(answer)],
                                  "image_repository")
    /\ EnvironmentUnchanged

\* run(), image repository; _prompt_image_repository
RunImageRepository ==
    /\ guided.pc = "image_repository"
    /\ IF Echoed(guided, guided.image_repository_arn)
       THEN guided' = Advance(guided, "summary")
       ELSE \E confirm \in BOOLEAN, answer \in ArnAnswers("image_repository") :
                guided' = Advance(prompt_image_repository(guided, confirm, answer), "summary")
    /\ EnvironmentUnchanged

\* run(), [5] Summary: _get_user_inputs fails to resolve the account
SummaryCredentialsError ==
    /\ guided.pc = "summary"
    /\ guided' = [guided EXCEPT !.pc = "raised"]
    /\ EnvironmentUnchanged

\* run(), [5] Summary: the user selects an item to edit
SummaryEdit ==
    /\ guided.pc = "summary"
    /\ guided.edits < MaxEdits
    /\ \E edit_input \in 1..Len(Items) :
           guided' = [guided EXCEPT !.pc = Items[edit_input], !.editing = TRUE,
                                    !.edits = @ + 1]
    /\ EnvironmentUnchanged

\* run(), [5] Summary: the user confirms the values
SummaryConfirm ==
    /\ guided.pc = "summary"
    /\ guided' = [guided EXCEPT !.pc = "done"]
    /\ EnvironmentUnchanged

NextGuided ==
    \/ RunStageName
    \/ PromptAccountIdQuit
    \/ PromptAccountId
    \/ RunRegionName
    \/ RunPipelineUser
    \/ RunPipelineExecutionRole
    \/ RunCloudformationExecutionRole
    \/ RunArtifactsBucket
    \/ RunImageRepository
    \/ SummaryCredentialsError
    \/ SummaryEdit
    \/ SummaryConfirm

SpecGuided == InitGuided /\ [][NextGuided]_vars

(***************************************************************************)
(* Vocabulary of the properties, stated on the state alone.                *)
(***************************************************************************)

\* The descriptors that take part in the completeness check.
Participating ==
    {"pipeline_user", "pipeline_execution_role", "cloudformation_execution_role",
     "artifacts_bucket"}
    \cup (IF create_image_repository
             \/ (arn["image_repository"] # None /\ arn["image_repository"] # Some(""))
          THEN {"image_repository"} ELSE {})

AllParticipatingProvided == \A d \in Participating : is_user_provided[d]

\* The identifier of d as an override: the identifier, or "" when unset.
OverrideOf(d) == IF arn[d] = None THEN "" ELSE arn[d][1]

\* A step that is one bootstrap() call.
BootstrapStep == calls' = calls + 1

\* No descriptor identifier and no credential field changes in the step.
FieldsUnchanged ==
    /\ arn' = arn
    /\ access_key_id' = access_key_id
    /\ secret_access_key' = secret_access_key

\* The call recorded in last' invoked neither backend.
NoBackendInvoked ==
    /\ last'.manage_stack_calls = 0
    /\ last'.get_secret_value_calls = 0

\* C1: did_user_provide_all_required_resources() returns true exactly when
\* every participating descriptor is user provided (the image repository
\* participating only if create_image_repository is set or its identifier is
\* currently set), and the call changes no state of the Environment.
C1_DidUserProvideAll ==
    [][last'.op = "did_user_provide_all_required_resources"
         => /\ (last'.result = "True") <=> AllParticipatingProvided
            /\ last'.result \in {"True", "False"}
            /\ UNCHANGED <<name, aws_region, arn, is_user_provided,
                           create_image_repository, access_key_id, secret_access_key,
                           stack>>]_vars

\* The predicate answered true with the image repository left out of the check.
C1_Witness ==
    /\ last.op = "did_user_provide_all_required_resources"
    /\ last.result = "True"
    /\ ~is_user_provided["image_repository"]

\* C2: when all required resources are user provided, bootstrap returns true
\* for either value of confirm, asks nothing, invokes neither backend and
\* leaves every identifier and credential field unchanged.
C2_BootstrapSkipsWhenAllProvided ==
    [][BootstrapStep /\ AllParticipatingProvided
         => /\ last'.result = "True"
            /\ last'.confirmed = "not asked"
            /\ NoBackendInvoked
            /\ FieldsUnchanged]_vars

\* bootstrap(True) returned true without asking or calling a backend.
C2_Witness ==
    /\ last.op = "bootstrap"
    /\ last.confirm_changeset
    /\ last.result = "True"
    /\ last.manage_stack_calls = 0
    /\ last.confirmed = "not asked"
    /\ ~is_user_provided["image_repository"]

\* C3: when not all required resources are user provided, confirm is true
\* and the user declines, bootstrap returns false, invokes neither backend
\* and leaves every identifier and credential field unchanged.
C3_DeclineHasNoEffect ==
    [][BootstrapStep /\ ~AllParticipatingProvided
          /\ last'.confirm_changeset /\ last'.confirmed = "no"
         => /\ last'.result = "False"
            /\ NoBackendInvoked
            /\ FieldsUnchanged]_vars

\* A declined bootstrap on an Environment a previous call had provisioned.
C3_Witness ==
    /\ last.op = "bootstrap"
    /\ last.confirmed = "no"
    /\ last.result = "False"
    /\ provisioned = 1

\* C4: a bootstrap call that proceeds invokes manage_stack exactly once, with
\* the current identifier of each of the five descriptors ("" when unset) and
\* the create flag equal to create_image_repository as overrides.
C4_ProvisioningCalledOnceWithOverrides ==
    [][BootstrapStep /\ ~AllParticipatingProvided
          /\ (~last'.confirm_changeset \/ last'.confirmed = "yes")
         => /\ last'.manage_stack_calls = 1
            /\ last'.parameter_overrides =
                 [PipelineUserArn |-> OverrideOf("pipeline_user"),
                  PipelineExecutionRoleArn |-> OverrideOf("pipeline_execution_role"),
                  CloudFormationExecutionRoleArn |-> OverrideOf("cloudformation_execution_role"),
                  ArtifactsBucketArn |-> OverrideOf("artifacts_bucket"),
                  CreateImageRepository |->
                      IF create_image_repository THEN "true" ELSE "false",
                  ImageRepositoryArn |-> OverrideOf("image_repository")]]_vars

\* manage_stack was called with a set bucket, an unset role and creation asked.
C4_Witness ==
    /\ last.op = "bootstrap"
    /\ last.manage_stack_calls = 1
    /\ last.parameter_overrides["ArtifactsBucketArn"] = ArnOf("artifacts_bucket")
    /\ last.parameter_overrides["CloudFormationExecutionRoleArn"] = ""
    /\ last.parameter_overrides["CreateImageRepository"] = "true"

\* C5: after a bootstrap call whose manage_stack call (and secret lookup, if
\* any) succeeded, bootstrap has returned true and each descriptor's
\* identifier is the value of its output key, unset when the key is absent.
C5_IdentifiersFromOutputs ==
    (/\ last.op = "bootstrap"
     /\ last.manage_stack_status = "returned"
     /\ last.secret_status # "raised"
     /\ (last.secret_status = "returned"
           => /\ last.secret_json["aws_access_key_id"] # None
              /\ last.secret_json["aws_secret_access_key"] # None))
    => /\ last.result = "True"
       /\ arn["pipeline_user"] = last.output["PipelineUser"]
       /\ arn["pipeline_execution_role"] = last.output["PipelineExecutionRole"]
       /\ arn["cloudformation_execution_role"] = last.output["CloudFormationExecutionRole"]
       /\ arn["artifacts_bucket"] = last.output["ArtifactsBucket"]
       /\ arn["image_repository"] = last.output["ImageRepository"]

\* A successful call whose outputs lack the bucket the user had provided and
\* carry the role that was to be created.
C5_Witness ==
    /\ last.op = "bootstrap"
    /\ last.result = "True"
    /\ last.manage_stack_status = "returned"
    /\ last.output["ArtifactsBucket"] = None
    /\ is_user_provided["artifacts_bucket"]
    /\ last.output["CloudFormationExecutionRole"] # None
    /\ ~is_user_provided["cloudformation_execution_role"]

\* C6: in a bootstrap call whose manage_stack call returned: with a non-empty
\* PipelineUserSecretKey exactly one lookup is made, for that secret, and the
\* pair it yields is stored on the pipeline user; with PipelineUserSecretKey
\* absent no lookup is made and the credential fields stay as they were.
C6_SecretLookup ==
    [][BootstrapStep /\ last'.manage_stack_status = "returned"
         => /\ (last'.output["PipelineUserSecretKey"] # None
                  /\ last'.output["PipelineUserSecretKey"] # Some(""))
               => /\ last'.get_secret_value_calls = 1
                  /\ Some(last'.secret_id) = last'.output["PipelineUserSecretKey"]
                  /\ last'.result = "True"
                       => /\ access_key_id' = last'.secret_json["aws_access_key_id"]
                          /\ secret_access_key' = last'.secret_json["aws_secret_access_key"]
                          /\ access_key_id' # None
                          /\ secret_access_key' # None
            /\ last'.output["PipelineUserSecretKey"] = None
               => /\ last'.get_secret_value_calls = 0
                  /\ access_key_id' = access_key_id
                  /\ secret_access_key' = secret_access_key]_vars

\* The second pair of the secrets backend was fetched and stored.
C6_Witness ==
    /\ last.op = "bootstrap"
    /\ last.result = "True"
    /\ last.get_secret_value_calls = 1
    /\ access_key_id = Some("AKIAEXAMPLE2")
    /\ secret_access_key = Some("secret2")

\* C7: if manage_stack raises, or the secret lookup raises or returns content
\* lacking a required field, bootstrap raises (returns neither true nor
\* false) and the failed call is not attempted a second time.
C7_FailuresPropagate ==
    /\ (last.op = "bootstrap" /\ last.manage_stack_status = "raised")
         => /\ last.result = "raised"
            /\ last.manage_stack_calls = 1
            /\ last.get_secret_value_calls = 0
    /\ (last.op = "bootstrap"
          /\ (\/ last.secret_status = "raised"
              \/ /\ last.secret_status = "returned"
                 /\ (\/ last.secret_json["aws_access_key_id"] = None
                     \/ last.secret_json["aws_secret_access_key"] = None)))
         => /\ last.result = "raised"
            /\ last.manage_stack_calls = 1
            /\ last.get_secret_value_calls = 1

\* The secret came back without its secret access key.
C7_Witness ==
    /\ last.op = "bootstrap"
    /\ last.secret_status = "returned"
    /\ last.secret_json["aws_access_key_id"] # None
    /\ last.secret_json["aws_secret_access_key"] = None
    /\ last.result = "raised"

\* C8 as stated: over any sequence of bootstrap calls every identifier and
\* credential field is mutated only after a successful manage_stack call, and
\* never a second time.
C8_MutatedExactlyOnce ==
    \A f \in Fields : nmut[f] <= (IF provisioned > 0 THEN 1 ELSE 0)

\* C8 as amended: an identifier or credential field changes only in a
\* bootstrap call whose manage_stack call returned, at most once per such
\* call, and the credential fields only in a call that returns true.
C8_MutatedOnlyAfterProvisioning ==
    [][/\ ~FieldsUnchanged
          => /\ BootstrapStep
             /\ last'.manage_stack_status = "returned"
             /\ provisioned' = provisioned + 1
       /\ (access_key_id' # access_key_id \/ secret_access_key' # secret_access_key)
          => last'.result = "True"
       /\ \A f \in Fields : nmut'[f] <= provisioned']_vars

\* The credentials changed in each of two calls.
C8_Witness ==
    /\ nmut["access_key_id"] = 2
    /\ provisioned = 2

\* C9 as stated: a second bootstrap call with the same inputs, made once a
\* first one returned true, returns true, invokes neither backend and changes
\* no descriptor.
C9_SecondCallIsNoOp ==
    [][(/\ last.op = "bootstrap"
        /\ last.result = "True"
        /\ BootstrapStep
        /\ last'.confirm_changeset = last.confirm_changeset)
         => /\ last'.result = "True"
            /\ NoBackendInvoked
            /\ FieldsUnchanged]_vars

\* C9 as amended: the second call is that no-op only when the first one was
\* (everything was user provided at construction); after a first call that
\* provisioned, the second call asks again when confirm is true and, unless
\* declined, calls manage_stack once more.
C9_SecondCallProvisionsAgain ==
    [][(/\ last.op = "bootstrap"
        /\ last.result = "True"
        /\ BootstrapStep)
         => IF last.manage_stack_calls = 0
            THEN /\ last'.result = "True"
                 /\ NoBackendInvoked
                 /\ FieldsUnchanged
            ELSE /\ last'.confirm_changeset <=> last'.confirmed \in {"yes", "no"}
                 /\ \/ /\ last'.confirmed = "no"
                       /\ last'.result = "False"
                       /\ NoBackendInvoked
                       /\ FieldsUnchanged
                    \/ /\ last'.confirmed # "no"
                       /\ last'.manage_stack_calls = 1]_vars

\* Two calls in a row returned true and each called manage_stack.
C9_Witness ==
    /\ calls = 2
    /\ provisioned = 2
    /\ last.op = "bootstrap"
    /\ last.result = "True"
    /\ \A d \in Descriptors : arn[d] # None

\* The bucket name and the repository URI that the identifiers yield, for the
\* identifiers that have one.
DerivedValue(d) ==
    CASE d = ARTIFACTS_BUCKET /\ arn[d] = Some("arn:aws:s3:::my-bucket") -> "my-bucket"
      [] d = ECR_IMAGE_REPOSITORY
           /\ arn[d] = Some("arn:aws:ecr:us-east-1:123456789012:repository/my-repo")
           -> "123456789012.dkr.ecr.us-east-1.amazonaws.com/my-repo"
      [] OTHER -> ""

\* The value save_config is to write for descriptor d, "" when it has none.
WrittenValue(d) ==
    IF d \in {ARTIFACTS_BUCKET, ECR_IMAGE_REPOSITORY}
    THEN DerivedValue(d)
    ELSE IF arn[d] = None THEN "" ELSE arn[d][1]

\* The puts of the recorded call that carry key k.
PutsFor(k) == {i \in 1..Len(last.puts) : last.puts[i].key = k}

\* C10 as stated: a save_config that completes writes one pair for each
\* descriptor with a non-empty identifier and none for a descriptor whose
\* identifier is empty.
C10_PairForEveryNonEmptyIdentifier ==
    (last.op = "save_config" /\ last.result = "None")
    => \A d \in Descriptors :
          (arn[d] # None /\ arn[d] # Some("")) <=> PutsFor(d) # {}

\* C10 as amended: a save_config that completes writes one pair for each of
\* pipeline_user, pipeline_execution_role and cloudformation_execution_role
\* whose identifier is non-empty, the identifier itself; one for
\* artifacts_bucket and image_repository only when the identifier is non-empty
\* and yields a non-empty bucket name or URI, that derived value; every pair
\* under the given cmd_names and section "parameters"; and no pair for a
\* descriptor whose identifier is empty or fails to parse.
C10_PairForEveryWritableIdentifier ==
    (last.op = "save_config" /\ last.result = "None")
    => /\ \A d \in Descriptors :
             /\ WrittenValue(d) # "" <=> PutsFor(d) # {}
             /\ Cardinality(PutsFor(d)) <= 1
             /\ \A i \in PutsFor(d) : last.puts[i].value = WrittenValue(d)
       /\ \A i \in 1..Len(last.puts) :
             /\ last.puts[i].cmd_names = last.cmd_names
             /\ last.puts[i].section = "parameters"
             /\ last.puts[i].key \in Descriptors \cup {REGION}
       /\ last.flushed

\* A completed save_config wrote the bucket name and the repository URI, and
\* nothing for the role whose identifier is unset.
C10_Witness ==
    /\ last.op = "save_config"
    /\ last.result = "None"
    /\ last.cmd_names = <<"pipeline", "bootstrap">>
    /\ \E i \in PutsFor(ARTIFACTS_BUCKET) : last.puts[i].value = "my-bucket"
    /\ \E i \in PutsFor(ECR_IMAGE_REPOSITORY) :
          last.puts[i].value = "123456789012.dkr.ecr.us-east-1.amazonaws.com/my-repo"
    /\ arn[PIPELINE_EXECUTION_ROLE] = None
    /\ PutsFor(PIPELINE_EXECUTION_ROLE) = {}
    /\ PutsFor(PIPELINE_USER) # {}

\* The identifiers from which no bucket name, respectively no repository
\* URI, can be extracted.
Unparsable(d) ==
    CASE d = ARTIFACTS_BUCKET ->
           arn[d] \in {Some("my-bucket"), Some("arn:aws:s3:::my-bucket:extra")}
      [] d = ECR_IMAGE_REPOSITORY ->
           arn[d] \in {Some("my-repo"), Some("arn:aws:ecr:us-east-1:123456789012:my-repo")}
      [] OTHER -> FALSE

\* The remaining keys get their pair and the store is flushed.
RemainingFieldsSaved ==
    /\ \A d \in Descriptors :
          ~Unparsable(d) =>
             /\ WrittenValue(d) # "" <=> PutsFor(d) # {}
             /\ \A i \in PutsFor(d) : last.puts[i].value = WrittenValue(d)
    /\ aws_region # None <=> PutsFor(REGION) # {}
    /\ last.flushed

C12_EveryPutScopedByEnvironment ==
    last.op = "save_config"
    => \A i \in 1..Len(last.puts) : last.puts[i].env = Some(name)

\* C12 as amended: the pairs of pipeline_execution_role,
\* cloudformation_execution_role, artifacts_bucket, image_repository and region
\* are scoped by the Environment's name; the pipeline_user pair is put without
\* an env argument.
C12_EnvironmentSpecificPutsScoped ==
    last.op = "save_config"
    => \A i \in 1..Len(last.puts) :
          IF last.puts[i].key = "pipeline_user"
          THEN last.puts[i].env = None
          ELSE /\ last.puts[i].env = Some(name)
               /\ last.puts[i].key \in
                    {"pipeline_execution_role", "cloudformation_execution_role",
                     "artifacts_bucket", "image_repository", "region"}

\* The environment Prod saved its pipeline user, its bucket and its region.
C12_Witness ==
    /\ last.op = "save_config"
    /\ last.result = "None"
    /\ name = "Prod"
    /\ PutsFor(PIPELINE_USER) # {}
    /\ PutsFor(ARTIFACTS_BUCKET) # {}
    /\ PutsFor(REGION) # {}

\* C13: save_config_safe never raises: whichever step of save_config fails
\* (the store's construction, a put, the flush) or whichever derived value
\* cannot be extracted, it returns to the caller.
C13_SaveConfigSafeNeverRaises ==
    last.op = "save_config_safe" => last.result = "None"

\* save_config_safe returned although the second put had raised.
C13_Witness ==
    /\ last.op = "save_config_safe"
    /\ last.fail_at = 3
    /\ Len(last.puts) = 1
    /\ ~last.flushed
    /\ last.result = "None"
    /\ Unparsable(ECR_IMAGE_REPOSITORY)

\* The stack name each environment name is to give.
ExpectedStackName ==
    CASE name = "Beta" -> "aws-sam-cli-managed-Beta-pipeline-resources"
      [] name = "My Env!" -> "aws-sam-cli-managed-My-Env--pipeline-resources"
      [] name = "Prod 2" -> "aws-sam-cli-managed-Prod-2-pipeline-resources"
      [] name = "dev__east--1" -> "aws-sam-cli-managed-dev-east-1-pipeline-resources"
      [] name = "!!qa" -> "aws-sam-cli-managed--qa-pipeline-resources"
      [] name = "" -> "aws-sam-cli-managed--pipeline-resources"
      [] name = "stage.one/two" -> "aws-sam-cli-managed-stage-one-two-pipeline-resources"

\* C14: the stack name passed to manage_stack is "aws-sam-cli-managed-" + S +
\* "-pipeline-resources", S being the environment name with every maximal run
\* of non-alphanumeric characters replaced by one hyphen and the alphanumeric
\* characters kept in order; "My Env!" gives
\* "aws-sam-cli-managed-My-Env--pipeline-resources".
C14_StackName ==
    (last.op = "bootstrap" /\ last.manage_stack_calls = 1)
    => last.stack_name = ExpectedStackName

\* manage_stack was called for the environment named "My Env!".
C14_Witness ==
    /\ last.op = "bootstrap"
    /\ last.manage_stack_calls = 1
    /\ name = "My Env!"
    /\ last.stack_name = "aws-sam-cli-managed-My-Env--pipeline-resources"

\* The label under which the summary names each descriptor.
LabelOf(d) ==
    CASE d = "pipeline_user" -> "Pipeline IAM user"
      [] d = "pipeline_execution_role" -> "Pipeline execution role"
      [] d = "cloudformation_execution_role" -> "CloudFormation execution role"
      [] d = "artifacts_bucket" -> "Artifact bucket"
      [] d = "image_repository" -> "ECR image repository"

C16_FailedBootstrapChangesNothing ==
    [][BootstrapStep /\ last'.result = "raised" => FieldsUnchanged]_vars

\* C17: once _prompt_image_repository has run, in the initial questionnaire or
\* from the summary, create_image_repository is true exactly when the user
\* answered yes to the question about Image type functions and the stored
\* image_repository_arn is empty; it is never true together with a non-empty
\* image_repository_arn.
C17_CreateOnlyWhenConfirmedAndNoArn ==
    guided.image_repository_prompts > 0
      => /\ guided.create_image_repository
              <=> /\ guided.confirm = "yes"
                  /\ guided.image_repository_arn \in {None, Some("")}
         /\ ~(guided.create_image_repository
                /\ guided.image_repository_arn \notin {None, Some("")})

\* The user first named a repository, then edited the item from the summary
\* and asked for one to be created.
C17_Witness ==
    /\ guided.pc = "done"
    /\ guided.image_repository_prompts = 2
    /\ guided.edits = 2
    /\ guided.confirm = "yes"
    /\ guided.image_repository_arn = Some("")
    /\ guided.create_image_repository

====
